---- MODULE Spec2Model ----
(***************************************************************************)
(* Fit Castle API: the body-recomposition endpoints of main.py.            *)
(*                                                                         *)
(* submit_metrics and recommend_plan are modelled as request handlers      *)
(* running in worker slots (FastAPI runs sync handlers in a thread pool),  *)
(* each slot holding the handler's local variables and its position.       *)
(* The storage gateway create_document lives in database.py, which is not  *)
(* part of the sources at hand; it is modelled from its documented         *)
(* contract: it either appends the record to the named collection and      *)
(* returns a fresh id, or raises and stores nothing.                       *)
(***************************************************************************)
EXTENDS Integers, Sequences, FiniteSets, TLC

\* ---------------------------------------------------------------- bounds
\* Number of worker slots handling requests at the same time.
NumReqs == 2
\* Capacity of the document store; a create against a full store fails.
MaxDocs == 2

Reqs == 1..NumReqs

\* ------------------------------------------------------ optional values
\* Python's None and a present Optional value.
None == <<>>
Some(x) == <<x>>

\* ------------------------------------------------------------ BodyMetric
Genders == {"male", "female"}
ActivityLevels == {"sedentary", "light", "moderate", "active", "athlete"}
Goals == {"fat_loss", "muscle_gain", "recomp"}
\* body_fat_pct: absent, or a value of the validated range 3..60; the
\* values chosen sit at the range ends and around the threshold of 25.
BodyFatValues == {None, Some(3), Some(25), Some(26), Some(60)}

\* The fields of BodyMetric the model carries.  age, height_cm and weight_kg
\* are, like gender, read into locals that are never used afterwards, and
\* the girth fields and member_id are never read; they are left out.
BodyMetric ==
    [gender : Genders, body_fat_pct : BodyFatValues,
     activity_level : ActivityLevels, goal : Goals]

\* The payloads sent by the clients of a run with several distinct clients.
MixedMetrics ==
    { [gender |-> "female", body_fat_pct |-> Some(26),
       activity_level |-> "sedentary", goal |-> "fat_loss"],
      [gender |-> "male", body_fat_pct |-> None,
       activity_level |-> "athlete", goal |-> "muscle_gain"] }

\* ---------------------------------------------------------- ExerciseItem
ExerciseItem(name, sets, reps, freq) ==
    [name |-> name, sets |-> sets, reps |-> reps, frequency_per_week |-> freq]

\* The add() calls of the three goal branches, in their order.
FatLossPlan ==
    << ExerciseItem("Treadmill Intervals", 6, "1 min fast / 2 min easy", 3),
       ExerciseItem("Full-Body Circuit", 4, "12-15 reps", 2),
       ExerciseItem("Core Stability", 3, "12-15 reps", 2) >>
MuscleGainPlan ==
    << ExerciseItem("Barbell Squat", 5, "5-8 reps", 2),
       ExerciseItem("Bench Press", 5, "5-8 reps", 2),
       ExerciseItem("Deadlift", 3, "3-5 reps", 1),
       ExerciseItem("Accessory (Rows, Press, Pull-ups)", 4, "8-12 reps", 2) >>
RecompPlan ==
    << ExerciseItem("Upper/Lower Split Strength", 4, "6-10 reps", 3),
       ExerciseItem("Zone 2 Cardio", 1, "30-40 mins", 2),
       ExerciseItem("Mobility & Core", 3, "10-15 reps", 2) >>

\* Faulty variant: the elif compares against a misspelt goal, so muscle_gain falls
\* through to the catch-all branch.
BasePlanMisspeltGoal(goal) ==
    IF goal = "fat_loss" THEN FatLossPlan
    ELSE IF goal = "muscle" THEN MuscleGainPlan
    ELSE RecompPlan

\* The plan built by the if / elif / else over goal.
BasePlan(goal) ==
    IF goal = "fat_loss" THEN FatLossPlan
    ELSE IF goal = "muscle_gain" THEN MuscleGainPlan
    ELSE RecompPlan

Max(a, b) == IF a >= b THEN a ELSE b

\* Which loop of the adjustment stage runs for an activity level.
Lowers(activity) == activity \in {"sedentary", "light"}
Raises(activity) == ~Lowers(activity) /\ activity \in {"athlete"}

\* Faulty variant: the lowering loop without the floor of 1.
AdjustedItemNoFloor(item, activity) ==
    IF Lowers(activity)
    THEN [item EXCEPT !.frequency_per_week = item.frequency_per_week - 1]
    ELSE [item EXCEPT !.frequency_per_week = item.frequency_per_week + 1]

\* The assignment in the body of the loop that runs for `activity`.
AdjustedItem(item, activity) ==
    IF Lowers(activity)
    THEN [item EXCEPT !.frequency_per_week = Max(1, item.frequency_per_week - 1)]
    ELSE [item EXCEPT !.frequency_per_week = item.frequency_per_week + 1]

\* Python truthiness of an Optional[float].
Truthy(bf) == bf # None /\ bf[1] # 0

BaseSummary == "Personalized plan generated based on your goal and activity level."
FatLossSuffix == " Focus on sustainable deficit, prioritize sleep and steps."

\* Faulty variant: the threshold test is not strict.
SummaryOfNotStrict(goal, bf) ==
    IF Truthy(bf) /\ goal = "fat_loss" /\ bf[1] >= 25
    THEN BaseSummary \o FatLossSuffix
    ELSE BaseSummary

\* summary, with the suffix of the fat-loss branch.
SummaryOf(goal, bf) ==
    IF Truthy(bf) /\ goal = "fat_loss" /\ bf[1] > 25
    THEN BaseSummary \o FatLossSuffix
    ELSE BaseSummary

Recommendation(id, summary, plan) ==
    [body_metric_id |-> id, summary |-> summary, weekly_plan |-> plan]

\* The adjustment stage run to completion on a plan.
AdjustAll(p, activity) ==
    IF Lowers(activity) \/ Raises(activity)
    THEN [k \in 1..Len(p) |-> AdjustedItem(p[k], activity)]
    ELSE p

\* The plan after the first n iterations of the adjustment loop.
PartialAdjust(p, activity, n) ==
    [k \in 1..Len(p) |-> IF k <= n THEN AdjustedItem(p[k], activity) ELSE p[k]]

\* recommend_plan's rec as a function of the request, run without interruption.
RecommendFn(m) ==
    Recommendation(None, SummaryOf(m.goal, m.body_fat_pct),
                   AdjustAll(BasePlan(m.goal), m.activity_level))

\* ----------------------------------------------------------------- state
VARIABLES
    universe,   \* the BodyMetric payloads the clients of this run send
    workers,    \* the slots of this run's thread pool
    storage,    \* collection name -> sequence of stored documents
    pc,         \* slot -> position of the handler running in it
    endpoint,   \* slot -> the handler serving the current request
    metrics,    \* slot -> the request's BodyMetric
    plan,       \* slot -> local list `plan`
    idx,        \* slot -> loop variable i of the adjustment loop (1-based)
    rec,        \* slot -> local `rec`
    mid,        \* slot -> local `mid`
    stored,     \* slot -> how far the best-effort save of this call got
    response    \* slot -> the HTTP response of the last finished call

vars == <<universe, workers, storage, pc, endpoint, metrics, plan, idx, rec, mid,
          stored, response>>

NoMetrics == [gender |-> "", body_fat_pct |-> None,
              activity_level |-> "", goal |-> ""]
NoRec == Recommendation(None, "", <<>>)
NoResponse == [status |-> 0, body |-> NoRec]

Collections == {"bodymetric", "recommendation"}

NumDocs == Len(storage["bodymetric"]) + Len(storage["recommendation"])

\* The id the store hands out for the next document it accepts.
NewId == NumDocs + 1

\* create_document(collection, data) when the store accepts the document.
CreateDocument(collection, data) ==
    /\ NumDocs < MaxDocs
    /\ storage' = [storage EXCEPT
                     ![collection] = Append(@, [id |-> NewId, data |-> data])]

Init ==
    \* Either one client sending one payload to a single worker, or clients
    \* sending different payloads to a pool of workers.
    /\ \/ universe \in { {m} : m \in BodyMetric } /\ workers = {1}
       \/ universe = MixedMetrics /\ workers = Reqs
    /\ storage = [c \in Collections |-> <<>>]
    /\ pc = [r \in Reqs |-> "idle"]
    /\ endpoint = [r \in Reqs |-> "none"]
    /\ metrics = [r \in Reqs |-> NoMetrics]
    /\ plan = [r \in Reqs |-> <<>>]
    /\ idx = [r \in Reqs |-> 1]
    /\ rec = [r \in Reqs |-> NoRec]
    /\ mid = [r \in Reqs |-> None]
    /\ stored = [r \in Reqs |-> "nothing"]
    /\ response = [r \in Reqs |-> NoResponse]

\* A request arrives at a free slot and is routed to its handler.
Receive(r) ==
    /\ pc[r] \in {"idle", "done"}
    /\ \E e \in {"submit_metrics", "recommend_plan"}, m \in universe :
         /\ endpoint' = [endpoint EXCEPT ![r] = e]
         /\ metrics' = [metrics EXCEPT ![r] = m]
         /\ pc' = [pc EXCEPT ![r] = IF e = "submit_metrics" THEN "submit" ELSE "select"]
    /\ plan' = [plan EXCEPT ![r] = <<>>]
    /\ idx' = [idx EXCEPT ![r] = 1]
    /\ rec' = [rec EXCEPT ![r] = NoRec]
    /\ mid' = [mid EXCEPT ![r] = None]
    /\ stored' = [stored EXCEPT ![r] = "nothing"]
    /\ response' = [response EXCEPT ![r] = NoResponse]
    /\ UNCHANGED <<universe, workers, storage>>

\* submit_metrics, create_document succeeds.
SubmitOk(r) ==
    /\ pc[r] = "submit"
    /\ CreateDocument("bodymetric", metrics[r])
    /\ response' = [response EXCEPT
                      ![r] = [status |-> 200, body |-> [ok |-> TRUE, id |-> NewId]]]
    /\ pc' = [pc EXCEPT ![r] = "done"]
    /\ UNCHANGED <<universe, workers, endpoint, metrics, plan, idx, rec, mid, stored>>

\* Faulty variant: the failure is swallowed and a success body is returned.
SubmitFailSwallowed(r) ==
    /\ pc[r] = "submit"
    /\ response' = [response EXCEPT
                      ![r] = [status |-> 200, body |-> [ok |-> TRUE, id |-> None]]]
    /\ pc' = [pc EXCEPT ![r] = "done"]
    /\ UNCHANGED <<universe, workers, storage, endpoint, metrics, plan, idx, rec, mid, stored>>

\* submit_metrics, create_document raises: HTTPException(500).
SubmitFail(r) ==
    /\ pc[r] = "submit"
    /\ response' = [response EXCEPT
                      ![r] = [status |-> 500, body |-> [detail |-> "storage error"]]]
    /\ pc' = [pc EXCEPT ![r] = "done"]
    /\ UNCHANGED <<universe, workers, storage, endpoint, metrics, plan, idx, rec, mid, stored>>

\* recommend_plan: plan = [] and the add() calls of the goal branch.
SelectPlan(r) ==
    /\ pc[r] = "select"
    /\ plan' = [plan EXCEPT ![r] = <<>> \o BasePlan(metrics[r].goal)]
    /\ idx' = [idx EXCEPT ![r] = 1]
    /\ pc' = [pc EXCEPT ![r] = "adjust"]
    /\ UNCHANGED <<universe, workers, storage, endpoint, metrics, rec, mid, stored, response>>

\* Whether one of the two adjustment loops has an iteration left.
InLoop(r) ==
    /\ Lowers(metrics[r].activity_level) \/ Raises(metrics[r].activity_level)
    /\ idx[r] <= Len(plan[r])

\* Faulty variant: an item whose lowered frequency would fall below 1 is removed
\* from the plan instead of being kept at 1.
AdjustItemDrops(r) ==
    /\ pc[r] = "adjust"
    /\ InLoop(r)
    /\ IF Lowers(metrics[r].activity_level) /\ plan[r][idx[r]].frequency_per_week = 1
       THEN /\ plan' = [plan EXCEPT
                          ![r] = SubSeq(@, 1, idx[r] - 1) \o SubSeq(@, idx[r] + 1, Len(@))]
            /\ idx' = idx
       ELSE /\ plan' = [plan EXCEPT
                          ![r][idx[r]] = AdjustedItem(@, metrics[r].activity_level)]
            /\ idx' = [idx EXCEPT ![r] = @ + 1]
    /\ UNCHANGED <<universe, workers, storage, pc, endpoint, metrics, rec, mid, stored, response>>

\* Faulty variant: the plan items are shared objects (templates mutated in place),
\* so an iteration also changes the item at the same position of every
\* other plan in flight.
AdjustItemShared(r) ==
    /\ pc[r] = "adjust"
    /\ InLoop(r)
    /\ plan' = [q \in Reqs |->
                  IF idx[r] <= Len(plan[q])
                  THEN [plan[q] EXCEPT
                          ![idx[r]] = AdjustedItem(@, metrics[r].activity_level)]
                  ELSE plan[q]]
    /\ idx' = [idx EXCEPT ![r] = @ + 1]
    /\ UNCHANGED <<universe, workers, storage, pc, endpoint, metrics, rec, mid, stored, response>>

\* One iteration of the adjustment loop.
AdjustItem(r) ==
    /\ pc[r] = "adjust"
    /\ InLoop(r)
    /\ plan' = [plan EXCEPT
                  ![r][idx[r]] = AdjustedItem(@, metrics[r].activity_level)]
    /\ idx' = [idx EXCEPT ![r] = @ + 1]
    /\ UNCHANGED <<universe, workers, storage, pc, endpoint, metrics, rec, mid, stored, response>>

\* The adjustment stage is over (loop exhausted, or no loop for this level):
\* the summary and rec are built.
BuildRec(r) ==
    /\ pc[r] = "adjust"
    /\ ~InLoop(r)
    /\ rec' = [rec EXCEPT
                 ![r] = Recommendation(None,
                          SummaryOf(metrics[r].goal, metrics[r].body_fat_pct),
                          plan[r])]
    /\ pc' = [pc EXCEPT ![r] = "store_metric"]
    /\ UNCHANGED <<universe, workers, storage, endpoint, metrics, plan, idx, mid, stored, response>>

\* Faulty variant: the id of the stored bodymetric document is reflected into the
\* returned Recommendation.
ReturnRecWithId(r) ==
    /\ response' = [response EXCEPT
                      ![r] = [status |-> 200,
                              body |-> [rec[r] EXCEPT !.body_metric_id = mid[r]]]]
    /\ pc' = [pc EXCEPT ![r] = "done"]
    /\ plan' = [plan EXCEPT ![r] = <<>>]
    /\ idx' = [idx EXCEPT ![r] = 1]
    /\ rec' = [rec EXCEPT ![r] = NoRec]
    /\ mid' = [mid EXCEPT ![r] = None]

\* return rec: the success response; the handler's locals go out of scope.
ReturnRec(r) ==
    /\ response' = [response EXCEPT ![r] = [status |-> 200, body |-> rec[r]]]
    /\ pc' = [pc EXCEPT ![r] = "done"]
    /\ plan' = [plan EXCEPT ![r] = <<>>]
    /\ idx' = [idx EXCEPT ![r] = 1]
    /\ rec' = [rec EXCEPT ![r] = NoRec]
    /\ mid' = [mid EXCEPT ![r] = None]

\* Faulty variant: rec is built lazily from what was stored, so a successful save
\* marks the summary of the Recommendation that is returned.
StoreMetricOkMarksRec(r) ==
    /\ pc[r] = "store_metric"
    /\ CreateDocument("bodymetric", metrics[r])
    /\ mid' = [mid EXCEPT ![r] = Some(NewId)]
    /\ stored' = [stored EXCEPT ![r] = "metrics"]
    /\ pc' = [pc EXCEPT ![r] = "store_rec"]
    /\ rec' = [rec EXCEPT ![r].summary = @ \o " Saved to your profile."]
    /\ UNCHANGED <<universe, workers, endpoint, metrics, plan, idx, response>>

\* mid = create_document("bodymetric", metrics) succeeds.
StoreMetricOk(r) ==
    /\ pc[r] = "store_metric"
    /\ CreateDocument("bodymetric", metrics[r])
    /\ mid' = [mid EXCEPT ![r] = Some(NewId)]
    /\ stored' = [stored EXCEPT ![r] = "metrics"]
    /\ pc' = [pc EXCEPT ![r] = "store_rec"]
    /\ UNCHANGED <<universe, workers, endpoint, metrics, plan, idx, rec, response>>

\* Faulty variant: only the first create is guarded, so after its failure the
\* second create still runs, with no id to reference.
StoreMetricFailContinues(r) ==
    /\ pc[r] = "store_metric"
    /\ pc' = [pc EXCEPT ![r] = "store_rec"]
    /\ UNCHANGED <<universe, workers, storage, endpoint, metrics, plan, idx, rec, mid,
                   stored, response>>

\* mid = create_document("bodymetric", metrics) raises: except Exception:
\* pass, then return rec.
StoreMetricFail(r) ==
    /\ pc[r] = "store_metric"
    /\ ReturnRec(r)
    /\ UNCHANGED <<universe, workers, storage, endpoint, metrics, stored>>

\* create_document("recommendation", {...}) succeeds, then return rec.
StoreRecOk(r) ==
    /\ pc[r] = "store_rec"
    /\ CreateDocument("recommendation",
                      Recommendation(mid[r], rec[r].summary, rec[r].weekly_plan))
    /\ stored' = [stored EXCEPT ![r] = "both"]
    /\ ReturnRec(r)
    /\ UNCHANGED <<universe, workers, endpoint, metrics>>

\* Faulty variant: the failure of the second create reaches the outer handler and
\* becomes HTTPException(500).
StoreRecFailRaises(r) ==
    /\ pc[r] = "store_rec"
    /\ response' = [response EXCEPT
                      ![r] = [status |-> 500, body |-> [detail |-> "storage error"]]]
    /\ pc' = [pc EXCEPT ![r] = "done"]
    /\ plan' = [plan EXCEPT ![r] = <<>>]
    /\ idx' = [idx EXCEPT ![r] = 1]
    /\ rec' = [rec EXCEPT ![r] = NoRec]
    /\ mid' = [mid EXCEPT ![r] = None]
    /\ UNCHANGED <<universe, workers, storage, endpoint, metrics, stored>>

\* create_document("recommendation", {...}) raises: except Exception: pass,
\* then return rec.
StoreRecFail(r) ==
    /\ pc[r] = "store_rec"
    /\ ReturnRec(r)
    /\ UNCHANGED <<universe, workers, storage, endpoint, metrics, stored>>

Next ==
    \E r \in workers :
        \/ Receive(r)
        \/ SubmitOk(r)
        \/ SubmitFail(r)
        \/ SelectPlan(r)
        \/ AdjustItem(r)
        \/ BuildRec(r)
        \/ StoreMetricOk(r)
        \/ StoreMetricFail(r)
        \/ StoreRecOk(r)
        \/ StoreRecFail(r)

Spec == Init /\ [][Next]_vars

\* ------------------------------------------------------------ properties
\* A recommend_plan call has returned in slot r.
Returned(r) == r \in workers /\ pc[r] = "done" /\ endpoint[r] = "recommend_plan"
\* A submit_metrics call has returned in slot r.
Submitted(r) == r \in workers /\ pc[r] = "done" /\ endpoint[r] = "submit_metrics"

\* An item without its frequency.
Fixed(item) == <<item.name, item.sets, item.reps>>
FixedPart(p) == [k \in 1..Len(p) |-> Fixed(p[k])]
Freqs(p) == [k \in 1..Len(p) |-> p[k].frequency_per_week]

FatLossItems ==
    << <<"Treadmill Intervals", 6, "1 min fast / 2 min easy">>,
       <<"Full-Body Circuit", 4, "12-15 reps">>,
       <<"Core Stability", 3, "12-15 reps">> >>
MuscleGainItems ==
    << <<"Barbell Squat", 5, "5-8 reps">>,
       <<"Bench Press", 5, "5-8 reps">>,
       <<"Deadlift", 3, "3-5 reps">>,
       <<"Accessory (Rows, Press, Pull-ups)", 4, "8-12 reps">> >>
RecompItems ==
    << <<"Upper/Lower Split Strength", 4, "6-10 reps">>,
       <<"Zone 2 Cardio", 1, "30-40 mins">>,
       <<"Mobility & Core", 3, "10-15 reps">> >>

\* C1: the returned plan's item names, sets and reps are fixed by the goal
\* alone: the 3 fat_loss items, the 4 muscle_gain items, or for any other
\* goal the 3 recomp items, each list in its prescribed order.
C1_PlanFixedByGoal ==
    \A r \in Reqs : Returned(r) =>
        FixedPart(response[r].body.weekly_plan) =
            CASE metrics[r].goal = "fat_loss" -> FatLossItems
              [] metrics[r].goal = "muscle_gain" -> MuscleGainItems
              [] OTHER -> RecompItems

\* A muscle_gain plan, the 4-item case, has been returned.
C1_Witness ==
    \E r \in Reqs : Returned(r) /\ metrics[r].goal = "muscle_gain"
                    /\ Len(response[r].body.weekly_plan) = 4

\* C2: every returned item's frequency is max(1, base - 1) for sedentary and
\* light, base + 1 for athlete and base for moderate and active, base being
\* the item's stage-1 frequency; no returned frequency is below 1.
C2_FrequencyAdjusted ==
    \A r \in Reqs : Returned(r) =>
        LET base == Freqs(BasePlan(metrics[r].goal))
            got == Freqs(response[r].body.weekly_plan)
            a == metrics[r].activity_level
        IN  /\ Len(got) = Len(base)
            /\ \A k \in 1..Len(base) :
                 /\ got[k] >= 1
                 /\ a \in {"sedentary", "light"} =>
                      got[k] = (IF base[k] - 1 >= 1 THEN base[k] - 1 ELSE 1)
                 /\ a = "athlete" => got[k] = base[k] + 1
                 /\ a \in {"moderate", "active"} => got[k] = base[k]
            /\ (metrics[r].goal = "muscle_gain" /\ a = "athlete") => got = <<3, 3, 2, 3>>
            /\ (metrics[r].goal = "fat_loss" /\ a = "sedentary") => got = <<2, 1, 1>>

\* A lowered plan whose base holds a frequency of 1 (Deadlift), kept at 1.
C2_Witness ==
    \E r \in Reqs : /\ Returned(r)
                    /\ metrics[r].goal = "muscle_gain"
                    /\ metrics[r].activity_level = "light"
                    /\ Freqs(response[r].body.weekly_plan) = <<1, 1, 1, 1>>

\* C3: the summary is the base sentence followed by the fat-loss suffix
\* exactly when goal is fat_loss and body_fat_pct is present and above 25;
\* in every other case it is the base sentence alone.
C3_SummarySuffix ==
    \A r \in Reqs : Returned(r) =>
        LET m == metrics[r]
            suffixed == /\ m.goal = "fat_loss"
                        /\ m.body_fat_pct # None
                        /\ m.body_fat_pct[1] > 25
        IN  response[r].body.summary =
              (IF suffixed
               THEN "Personalized plan generated based on your goal and activity level. Focus on sustainable deficit, prioritize sleep and steps."
               ELSE "Personalized plan generated based on your goal and activity level.")

\* The boundary: fat_loss with body_fat_pct exactly 25 gets the base sentence.
C3_Witness ==
    \E r \in Reqs : /\ Returned(r)
                    /\ metrics[r].goal = "fat_loss"
                    /\ metrics[r].body_fat_pct = Some(25)
                    /\ response[r].body.summary = BaseSummary

\* C4: whatever the storage calls of a recommend_plan call did, the response
\* is a success carrying the Recommendation computed from the request.
C4_StorageFailureIgnored ==
    \A r \in Reqs : Returned(r) =>
        /\ stored[r] \in {"nothing", "metrics", "both"}
        /\ response[r].status = 200
        /\ response[r].body = RecommendFn(metrics[r])

\* Two returned calls, one whose first create failed and one whose second
\* create failed after the first succeeded.
C4_Witness ==
    \E r1, r2 \in Reqs : /\ Returned(r1) /\ stored[r1] = "nothing"
                         /\ Returned(r2) /\ stored[r2] = "metrics"
                         /\ response[r1].status = 200 /\ response[r2].status = 200

Last(q) == q[Len(q)]

\* C5: submit_metrics answers a failed create with a 500 failure response
\* and no {ok, id}; it answers a successful create with {ok: true, id}, id
\* being the store's id of the newly created bodymetric document.
C5_SubmitPropagatesFailure ==
    [][\A r \in Reqs :
         (r \in workers /\ pc[r] = "submit" /\ pc'[r] = "done") =>
           IF storage' = storage
           THEN /\ response'[r].status = 500
                /\ DOMAIN response'[r].body = {"detail"}
           ELSE /\ response'[r].status = 200
                /\ storage'["bodymetric"] # storage["bodymetric"]
                /\ Last(storage'["bodymetric"]).data = metrics[r]
                /\ response'[r].body =
                     [ok |-> TRUE, id |-> Last(storage'["bodymetric"]).id]]_vars

\* One submission failed and another one was stored.
C5_Witness ==
    \E r1, r2 \in Reqs : /\ Submitted(r1) /\ response[r1].status = 500
                         /\ Submitted(r2) /\ response[r2].status = 200
                         /\ Len(storage["bodymetric"]) >= 1

\* C6: from the end of plan selection on, the plan keeps the length, the
\* order and every item's name, sets and reps of the goal's base plan; only
\* frequency_per_week may differ.
C6_AdjustmentFrame ==
    \A r \in Reqs :
        /\ (r \in workers /\ pc[r] \in {"adjust", "store_metric", "store_rec"}) =>
              FixedPart(plan[r]) = FixedPart(BasePlan(metrics[r].goal))
        /\ Returned(r) =>
              FixedPart(response[r].body.weekly_plan) = FixedPart(BasePlan(metrics[r].goal))

\* The adjustment loop has changed every frequency of a plan.
C6_Witness ==
    \E r \in Reqs : /\ r \in workers /\ pc[r] = "adjust"
                    /\ idx[r] > Len(plan[r])
                    /\ \A k \in 1..Len(plan[r]) :
                         plan[r][k].frequency_per_week #
                           BasePlan(metrics[r].goal)[k].frequency_per_week

\* C7: two returned recommend_plan calls with the same BodyMetric carry the
\* same Recommendation, whatever was stored and whatever their storage
\* calls did.
C7_Deterministic ==
    \A r1, r2 \in Reqs :
        (Returned(r1) /\ Returned(r2) /\ metrics[r1] = metrics[r2]) =>
            response[r1] = response[r2]

\* Two calls with the same payload, one stored in full, one not at all.
C7_Witness ==
    \E r1, r2 \in Reqs : /\ r1 # r2 /\ Returned(r1) /\ Returned(r2)
                         /\ metrics[r1] = metrics[r2]
                         /\ stored[r1] = "both" /\ stored[r2] = "nothing"

\* C8: at every position of every in-flight recommend_plan call, under any
\* interleaving with the other calls, the call's plan, rec and response are
\* the ones its own BodyMetric and its own position determine.
C8_NoInterference ==
    \A r \in Reqs : r \in workers =>
        /\ pc[r] = "adjust" =>
             plan[r] = (IF Lowers(metrics[r].activity_level) \/ Raises(metrics[r].activity_level)
                        THEN PartialAdjust(BasePlan(metrics[r].goal),
                                           metrics[r].activity_level, idx[r] - 1)
                        ELSE BasePlan(metrics[r].goal))
        /\ pc[r] \in {"store_metric", "store_rec"} =>
             /\ rec[r] = RecommendFn(metrics[r])
             /\ plan[r] = rec[r].weekly_plan
        /\ Returned(r) => response[r].body = RecommendFn(metrics[r])

\* Two calls with different payloads are both in the middle of their loops.
C8_Witness ==
    \E r1, r2 \in Reqs : /\ r1 # r2 /\ {r1, r2} \subseteq workers
                         /\ metrics[r1] # metrics[r2]
                         /\ pc[r1] = "adjust" /\ pc[r2] = "adjust"
                         /\ idx[r1] = 2 /\ idx[r2] = 3

IsPrefix(q1, q2) == Len(q1) <= Len(q2) /\ SubSeq(q2, 1, Len(q1)) = q1

\* Every stored recommendation references a stored bodymetric document.
Linked ==
    \A k \in 1..Len(storage["recommendation"]) :
        \E j \in 1..Len(storage["bodymetric"]) :
            storage["recommendation"][k].data.body_metric_id =
                Some(storage["bodymetric"][j].id)

\* C9: every stored recommendation references an existing bodymetric
\* document; documents are never removed; a step stores at most one
\* document; a bodymetric document is stored only by the first create of a
\* call, a recommendation document only by the second create of a call
\* whose first create returned an id, and it carries that id and the
\* summary and weekly_plan the call then returns.
C9_LinkedPersistence ==
    [][/\ Linked'
       /\ IsPrefix(storage["bodymetric"], storage'["bodymetric"])
       /\ IsPrefix(storage["recommendation"], storage'["recommendation"])
       /\ NumDocs' <= NumDocs + 1
       /\ storage'["bodymetric"] # storage["bodymetric"] =>
            \E r \in workers :
                \/ pc[r] = "store_metric" /\ pc'[r] = "store_rec"
                   /\ mid'[r] = Some(Last(storage'["bodymetric"]).id)
                \/ pc[r] = "submit" /\ pc'[r] = "done"
       /\ storage'["recommendation"] # storage["recommendation"] =>
            \E r \in workers :
                /\ pc[r] = "store_rec" /\ pc'[r] = "done"
                /\ stored[r] = "metrics" /\ mid[r] # None
                /\ Last(storage'["recommendation"]).data =
                     Recommendation(mid[r], rec[r].summary, rec[r].weekly_plan)
       /\ \A r \in workers :
            (pc[r] = "store_rec" /\ pc'[r] = "done" /\ stored'[r] = "both") =>
                \E k \in 1..Len(storage'["recommendation"]) :
                    LET d == storage'["recommendation"][k].data
                    IN  /\ d.body_metric_id = mid[r]
                        /\ d.summary = response'[r].body.summary
                        /\ d.weekly_plan = response'[r].body.weekly_plan
      ]_vars

\* A call has returned after storing its bodymetric document and the
\* recommendation document that references it.
C9_Witness ==
    \E r \in Reqs :
        /\ Returned(r) /\ stored[r] = "both"
        /\ Len(storage["bodymetric"]) = 1
        /\ Len(storage["recommendation"]) = 1
        /\ storage["recommendation"][1].data.body_metric_id =
             Some(storage["bodymetric"][1].id)
        /\ storage["recommendation"][1].data.weekly_plan =
             response[r].body.weekly_plan

\* C10: the returned Recommendation always has body_metric_id = None.
C10_NoIdInResponse ==
    \A r \in Reqs : Returned(r) => response[r].body.body_metric_id = None

\* A call returned after both of its documents were stored.
C10_Witness ==
    \E r \in Reqs : /\ Returned(r) /\ stored[r] = "both"
                    /\ Len(storage["recommendation"]) >= 1
                    /\ response[r].body.body_metric_id = None
====
